---- MODULE Spec2Model ----
(***************************************************************************)
(* Model of tools/cake_extensions/testtool.py: UnitTestTool, the           *)
(* incremental test runner of the build.  One invocation of run() is       *)
(* followed from the creation of its Target, through the lazily started    *)
(* task that runs _start, to the launch task that runs _launchTest.  The   *)
(* dependency-info store, the results file and the base tool outlive the   *)
(* invocation; a new run() call replaces an invocation that is finished or *)
(* was never awaited.                                                      *)
(***************************************************************************)
EXTENDS Integers, Sequences, FiniteSets, TLC

\* ------------------------------------------------------------------ bounds
MaxArgs == 1        \* longest extraArgs list passed to one run() call
MaxDeps == 2        \* longest dependencies list passed to one run() call
MaxExitCode == 1    \* exit codes range over -1 .. MaxExitCode

\* ------------------------------------------------------------------ values
None == "None"
Programs == {"./mytest", "./other"}
ResultsPaths == {"out/mytest.log"}
ArgNames == {"-v"}
DepNames == {"lib.a", "data.txt"}
ExitCodes == (-1) .. MaxExitCode
\* the paths a build task produces; the others are plain source files
TaskPaths == Programs \cup {"lib.a", "base.cfg"}
\* the files the model lets change between invocations
TouchPaths == {"lib.a"}

RECURSIVE SeqsUpTo(_, _)
SeqsUpTo(S, n) ==
  IF n = 0 THEN {<<>>}
  ELSE LET shorter == SeqsUpTo(S, n - 1)
       IN  shorter \cup {Append(s, x) : s \in shorter, x \in S}

Range(s) == {s[k] : k \in 1 .. Len(s)}
NoRepeat(s) == \A i, j \in 1 .. Len(s) : s[i] = s[j] => i = j

\* how many of program, extraArgs, dependencies differ between two calls
Differences(c, d) ==
  (IF c.program # d.program THEN 1 ELSE 0)
  + (IF c.extraArgs # d.extraArgs THEN 1 ELSE 0)
  + (IF c.dependencies # d.dependencies THEN 1 ELSE 0)

\* the run() calls of the build scripts: the reference call in every mode of
\* the tool, with and without a results path, and the caching calls that
\* differ from it in the program, in the extra arguments or in the dependencies
ReferenceCall == [program |-> "./mytest", extraArgs |-> <<"-v">>, dependencies |-> <<"lib.a">>]
RunInputs ==
  LET all == [program : Programs, results : ResultsPaths \cup {"None"},
              extraArgs : SeqsUpTo(ArgNames, MaxArgs),
              dependencies : {d \in SeqsUpTo(DepNames, MaxDeps) : NoRepeat(d)},
              enabled : BOOLEAN, alwaysRun : {"None", "True", "False"}]
  IN  {c \in all :
         \/ Differences(c, ReferenceCall) = 0
         \/ /\ Differences(c, ReferenceCall) = 1
            /\ c.enabled /\ c.alwaysRun = "None" /\ c.results # "None"}

Count(s, e) == Cardinality({k \in 1 .. Len(s) : s[k] = e})
Has(s, e) == \E k \in 1 .. Len(s) : s[k] = e
\* every occurrence of a precedes every occurrence of b
Before(s, a, b) == \A i, j \in 1 .. Len(s) : (s[i] = a /\ s[j] = b) => i < j

VARIABLES
  tool,         \* the base UnitTestTool the build scripts call run() on
  inv,          \* the current invocation: program, results, the clone `self`,
                \* the arguments of the call and the tool as it was before the call
  task,         \* state of the lazily started task of the Target (runs _start)
  awaited,      \* whether a consumer awaited the Target
  pc,           \* state of the launch task (runs _launchTest)
  upstream,     \* state of the program task and of every dependency task
  registered,   \* the aggregate targets the Target was added to
  reason,       \* what checkDependencyInfo answered in this invocation
  readArgs,     \* the vector this invocation passed to checkDependencyInfo
  quietAtRead,  \* whether no file had changed since the last process exit at that read
  exitCode,     \* what p.wait() returned
  ev,           \* what this invocation did, in order
  logged,       \* the test outputs this invocation sent to outputInfo
  error,        \* the exception that ended the invocation's task
  depInfo,      \* the dependency-info store, per results path
  changed,      \* paths whose content changed since the record was stored
  resultsFile,  \* the results file on disk
  prior,        \* how the invocation this one replaced ended, how it compares, and
                \* the results files as they were at the call
  touchedSince  \* whether a file changed since the last process exit

vars == <<tool, inv, task, awaited, pc, upstream, registered, reason, readArgs, quietAtRead,
          exitCode, ev, logged, error, depInfo, changed, resultsFile, prior, touchedSince>>

\* ------------------------------------------------------------------ errors
NoError == [kind |-> "none", name |-> None, targets |-> <<>>, program |-> None, exitCode |-> 0]
NameError(n) == [kind |-> "NameError", name |-> n, targets |-> <<>>, program |-> None, exitCode |-> 0]
UpstreamError == [kind |-> "UpstreamFailed", name |-> None, targets |-> <<>>, program |-> None, exitCode |-> 0]

\* engine.raiseError(msg, targets=[results]) of the nonzero exit code: the
\* message names programPath and the exit code
TestFailure(programPath, code, targets) ==
  [kind |-> "TestFailure", name |-> None, targets |-> targets, program |-> programPath, exitCode |-> code]

\* ------------------------------------------------------------------ the tool
\* UnitTestTool.__init__ and the class attributes enabled, alwaysRun
AlwaysRunValues == {None, "True", "False"}
NewTool == [extraArgs |-> <<>>, dependencies |-> <<>>, env |-> "os.environ",
            enabled |-> TRUE, alwaysRun |-> None]

\* the attributes enabled and alwaysRun as the script set them for the call
WithAttributes(t, enabled, alwaysRun) == [t EXCEPT !.enabled = enabled, !.alwaysRun = alwaysRun]

\* the tool as the configuration script left it before the build scripts run:
\* as constructed, or with an extra argument and a dependency of its own
BaseTools ==
  {NewTool, [NewTool EXCEPT !.extraArgs = <<"-b">>, !.dependencies = <<"base.cfg">>]}

\* Tool.clone(): an independent copy, the lists included
Clone(t) == t

\* run(): the clone, extended by the call's dependencies and extraArgs
RunClone(t, extraArgs, dependencies) ==
  LET c == Clone(t)
  IN  [c EXCEPT !.dependencies = IF dependencies # <<>> THEN @ \o dependencies ELSE @,
                !.extraArgs = IF extraArgs # <<>> THEN @ \o extraArgs ELSE @]

\* what run() leaves of the tool it was called on: the lists that are extended
\* are those of the clone
RunBaseExtended(t, extraArgs, dependencies) ==
  [t EXCEPT !.dependencies = @ \o dependencies, !.extraArgs = @ \o extraArgs]
RunBase(t, extraArgs, dependencies) == t

NoInvocation ==
  [program |-> None, results |-> None, self |-> NewTool,
   callExtraArgs |-> <<>>, callDependencies |-> <<>>, base |-> NewTool]

\* _makeTarget: the task of the Target
MakeTargetTaskEager(self) == IF self.enabled THEN "started" ELSE "notask"
MakeTargetTaskIgnoreEnabled(self) == "lazy"
MakeTargetTask(self) == IF self.enabled THEN "lazy" ELSE "notask"

\* _makeTarget: the targets the new Target is added to
MakeTargetRegistered == {"default", "testresults"}

\* getTask([program, dependencies]) in _start
StartAfterProgramOnly(i) == {i.program}
StartAfterDependenciesOnly(i) == Range(i.self.dependencies)
StartAfter(i) == {i.program} \cup Range(i.self.dependencies)

\* _launchTest: programArgs and dependencyArgs
ProgramArgs(i) == <<i.program>> \o i.self.extraArgs
DependencyArgsNoDeps(i) == ProgramArgs(i)
DependencyArgs(i) == ProgramArgs(i) \o i.self.dependencies

\* _launchTest: the condition of the staleness check
ChecksCache(i) == i.self.alwaysRun = None /\ i.results # None

\* _launchTest: the vector given to checkDependencyInfo and the one stored
CheckedArgsNoDeps(i) == ProgramArgs(i)
CheckedArgs(i) == DependencyArgs(i)
StoredArgsNoDeps(i) == ProgramArgs(i)
StoredArgs(i) == DependencyArgs(i)

\* _launchTest: the targets of the stored record, and the paths it depends on
StoredTargets(i) == <<i.results>>
StoredDependencies(i) == <<i.program>> \o i.self.dependencies

\* _start: whether a launch task is created
CreatesLaunchAlways(self) == TRUE
CreatesLaunch(self) == self.alwaysRun # "False"

\* _launchTest: where the exit code leads
AfterExitRetry(code) == IF code # 0 THEN "spawn" ELSE "store"
AfterExitIgnore(code) == "store"
AfterExit(code) == IF code # 0 THEN "failed" ELSE "store"

\* _launchTest: where the answer of checkDependencyInfo leads; the except
\* clause passes on EnvironmentError
AfterCheckFaultFails(answer) ==
  IF answer = None THEN "skipped" ELSE IF answer \in {"fault", "NoRecord"} THEN "failed" ELSE "open"
AfterCheckNeverSkips(answer) == "open"
AfterCheck(answer) == IF answer = None THEN "skipped" ELSE "open"

\* _launchTest: what the staleness check sends to outputDebug
CheckLogNothing(answer) == <<>>
CheckLog(answer) ==
  IF answer \in {None, "fault", "NoRecord"} THEN <<>> ELSE <<"debug:reason">>

\* _launchTest: whether the output read back is sent to outputInfo
LogsOutputOnFailure(code) == code # 0
LogsOutput(code) == TRUE

\* task.parent.completeAfter(task): the states of the launch task in which
\* the task of the Target may complete
CompleteAfterStarted(p) == p # "waiting"
CompleteAfter(p) == p \in {"skipped", "ran", "failed"}

\* _launchTest: the capture sink is the results file, or tempfile.TemporaryFile;
\* the module never imports tempfile, so that branch raises NameError
OpenSink(i) == IF i.results # None THEN "spawn" ELSE "failed"

\* what the test program prints
Output(code) == [exitCode |-> code]

\* ------------------------------------------------------------------ the store
NoRecord == <<>>

\* configuration.createDependencyInfo(targets, args, dependencies)
CreateDependencyInfo(targets, args, dependencies) ==
  [targets |-> targets, args |-> args, dependencies |-> dependencies]

\* configuration.checkDependencyInfo(results, args): the reason to rebuild,
\* None when up to date, "NoRecord" when it raises EnvironmentError
CheckDependencyInfo(results, args) ==
  IF depInfo[results] = NoRecord THEN "NoRecord"
  ELSE LET rec == depInfo[results][1]
       IN  IF rec.args # args THEN "args changed"
           ELSE IF Range(rec.dependencies) \cap changed[results] # {} THEN "dependency changed"
           ELSE None

\* ------------------------------------------------------------------ history
\* the vector of an invocation as the caller states it: the program, then the
\* extra arguments of the tool and of the call, then the dependencies of both
CallerVector(t, program, extraArgs, dependencies) ==
  <<program>> \o t.extraArgs \o extraArgs \o t.dependencies \o dependencies

NoPrior == [ran |-> FALSE, succeeded |-> FALSE, sameResults |-> FALSE,
            sameInputs |-> FALSE, sameVector |-> FALSE, sameElements |-> FALSE,
            resultsFile |-> [r \in ResultsPaths |-> [exists |-> FALSE, text |-> <<>>]]]

\* ------------------------------------------------------------------ initial state
Init ==
  /\ tool \in BaseTools
  /\ inv = NoInvocation
  /\ task = "none"
  /\ awaited = FALSE
  /\ pc = "none"
  /\ upstream = <<>>
  /\ registered = {}
  /\ reason = "unread"
  /\ readArgs = <<>>
  /\ quietAtRead = FALSE
  /\ exitCode = 0
  /\ ev = <<>>
  /\ logged = <<>>
  /\ error = NoError
  /\ depInfo = [r \in ResultsPaths |-> NoRecord]
  /\ changed = [r \in ResultsPaths |-> {}]
  /\ resultsFile = [r \in ResultsPaths |-> [exists |-> FALSE, text |-> <<>>]]
  /\ prior = NoPrior
  /\ touchedSince = FALSE

\* ------------------------------------------------------------------ the build script
Idle == task \in {"none", "notask", "lazy", "succeeded", "failed"}

Unchanged_world == UNCHANGED <<depInfo, changed, resultsFile, prior, touchedSince>>

\* run() and _run(): the Target is made and registered, nothing is started
Run(program, results, extraArgs, dependencies, enabled, alwaysRun) ==
  /\ Idle
  /\ LET base == WithAttributes(tool, enabled, alwaysRun)
         self == RunClone(base, extraArgs, dependencies)
         i == [program |-> program, results |-> results, self |-> self,
               callExtraArgs |-> extraArgs, callDependencies |-> dependencies,
               base |-> tool]
     IN  /\ inv' = i
         /\ task' = MakeTargetTask(self)
         /\ upstream' = [u \in ({program} \cup Range(self.dependencies)) \cap TaskPaths |-> "pending"]
         /\ tool' = RunBase(tool, extraArgs, dependencies)
         /\ prior' = [ran |-> Has(ev, "exit"),
                      succeeded |-> Has(ev, "exit") /\ exitCode = 0,
                      sameResults |-> results # None /\ inv.results = results,
                      sameInputs |-> /\ inv.program = program
                                     /\ inv.self.extraArgs = tool.extraArgs \o extraArgs
                                     /\ inv.self.dependencies = tool.dependencies \o dependencies,
                      sameVector |-> CallerVector(inv.self, inv.program, <<>>, <<>>)
                                       = CallerVector(tool, program, extraArgs, dependencies),
                      sameElements |-> Range(CallerVector(inv.self, inv.program, <<>>, <<>>))
                                       = Range(CallerVector(tool, program, extraArgs, dependencies)),
                      resultsFile |-> resultsFile]
  /\ awaited' = FALSE
  /\ registered' = MakeTargetRegistered
  /\ pc' = "none"
  /\ reason' = "unread"
  /\ readArgs' = <<>>
  /\ quietAtRead' = FALSE
  /\ exitCode' = 0
  /\ ev' = <<>>
  /\ logged' = <<>>
  /\ error' = NoError
  /\ UNCHANGED <<depInfo, changed, resultsFile, touchedSince>>

\* ------------------------------------------------------------------ the task graph
\* a consumer awaits the Target: the lazily started task is started
Await ==
  /\ task = "lazy"
  /\ task' = "started"
  /\ awaited' = TRUE
  /\ UNCHANGED <<tool, inv, pc, upstream, registered, reason, readArgs, quietAtRead, exitCode, ev, logged, error>>
  /\ Unchanged_world

UpstreamDone(u) ==
  /\ task \in {"lazy", "started", "completing"}
  /\ pc \in {"none", "waiting"}
  /\ u \in DOMAIN upstream
  /\ upstream[u] = "pending"
  /\ upstream' = [upstream EXCEPT ![u] = "done"]
  /\ UNCHANGED <<tool, inv, awaited, task, pc, registered, reason, readArgs, quietAtRead, exitCode, ev, logged, error>>
  /\ Unchanged_world

UpstreamFail(u) ==
  /\ task \in {"lazy", "started", "completing"}
  /\ pc \in {"none", "waiting"}
  /\ u \in DOMAIN upstream
  /\ upstream[u] = "pending"
  /\ upstream' = [upstream EXCEPT ![u] = "failed"]
  /\ UNCHANGED <<tool, inv, awaited, task, pc, registered, reason, readArgs, quietAtRead, exitCode, ev, logged, error>>
  /\ Unchanged_world

\* _start: the launch task is created, coupled to its parent and ordered
\* after the program and the dependencies
Start ==
  /\ task = "started"
  /\ IF CreatesLaunch(inv.self)
       THEN /\ task' = "completing"
            /\ pc' = "waiting"
       ELSE /\ task' = "succeeded"
            /\ pc' = "none"
  /\ UNCHANGED <<tool, inv, awaited, upstream, registered, reason, readArgs, quietAtRead, exitCode, ev, logged, error>>
  /\ Unchanged_world

\* task.startAfter(...): the launch task starts once all of them completed, and
\* fails when one of them failed
LaunchStart ==
  /\ pc = "waiting"
  /\ \A u \in StartAfter(inv) \cap TaskPaths : upstream[u] # "pending"
  /\ IF \E u \in StartAfter(inv) \cap TaskPaths : upstream[u] = "failed"
       THEN /\ pc' = "failed"
            /\ error' = UpstreamError
       ELSE /\ pc' = "check"
            /\ error' = error
  /\ UNCHANGED <<tool, inv, awaited, task, upstream, registered, reason, readArgs, quietAtRead, exitCode, ev, logged>>
  /\ Unchanged_world

\* task.parent.completeAfter(task): the Target's task completes with the launch task
TaskComplete ==
  /\ task = "completing"
  /\ CompleteAfter(pc)
  /\ task' = IF pc = "failed" THEN "failed" ELSE "succeeded"
  /\ UNCHANGED <<tool, inv, awaited, pc, upstream, registered, reason, readArgs, quietAtRead, exitCode, ev, logged, error>>
  /\ Unchanged_world

\* ------------------------------------------------------------------ _launchTest
\* the staleness check
LaunchTestCheck(fault) ==
  /\ pc = "check"
  /\ IF ChecksCache(inv)
       THEN LET answer == IF fault THEN "fault"
                          ELSE CheckDependencyInfo(inv.results, CheckedArgs(inv))
            IN  /\ reason' = answer
                /\ readArgs' = CheckedArgs(inv)
                /\ quietAtRead' = ~touchedSince
                /\ pc' = AfterCheck(answer)
                /\ ev' = ev \o <<"read">> \o CheckLog(answer)
       ELSE /\ fault = FALSE
            /\ pc' = "open"
            /\ UNCHANGED <<reason, readArgs, quietAtRead, ev>>
  /\ UNCHANGED <<tool, inv, awaited, task, upstream, registered, exitCode, logged, error>>
  /\ Unchanged_world

\* the announcement and the capture sink
LaunchTestOpen ==
  /\ pc = "open"
  /\ pc' = OpenSink(inv)
  /\ IF inv.results # None
       THEN /\ resultsFile' = [resultsFile EXCEPT ![inv.results] = [exists |-> TRUE, text |-> <<>>]]
            /\ ev' = ev \o <<"info:Testing", "debug:run", "open">>
            /\ error' = error
       ELSE /\ resultsFile' = resultsFile
            /\ ev' = ev \o <<"info:Testing", "debug:run">>
            /\ error' = NameError("tempfile")
  /\ UNCHANGED <<tool, inv, awaited, task, upstream, registered, reason, readArgs, quietAtRead, exitCode, logged>>
  /\ UNCHANGED <<depInfo, changed, prior, touchedSince>>

\* subprocess.Popen: the process starts, or the handler of the launch failure
\* reads the undefined name `targets`
LaunchTestSpawn(started) ==
  /\ pc = "spawn"
  /\ IF started
       THEN /\ pc' = "running"
            /\ ev' = Append(ev, "spawn")
            /\ error' = error
       ELSE /\ pc' = "failed"
            /\ ev' = Append(ev, "launch_error")
            /\ error' = NameError("targets")
  /\ UNCHANGED <<tool, inv, awaited, task, upstream, registered, reason, readArgs, quietAtRead, exitCode, logged>>
  /\ Unchanged_world

\* p.wait(), the output is read back and logged, a nonzero exit code is raised
LaunchTestWait(code) ==
  /\ pc = "running"
  /\ exitCode' = code
  /\ logged' = IF LogsOutput(code) THEN Append(logged, Output(code)) ELSE logged
  /\ resultsFile' = IF inv.results # None
                      THEN [resultsFile EXCEPT ![inv.results].text = <<Output(code)>>]
                      ELSE resultsFile
  /\ pc' = AfterExit(code)
  /\ ev' = ev \o <<"exit">> \o (IF LogsOutput(code) THEN <<"info:output">> ELSE <<>>)
              \o (IF AfterExit(code) = "failed" THEN <<"raise">> ELSE <<>>)
  /\ error' = IF AfterExit(code) = "failed"
                THEN TestFailure(inv.program, code, <<inv.results>>)
                ELSE error
  /\ touchedSince' = FALSE
  /\ UNCHANGED <<tool, inv, awaited, task, upstream, registered, reason, readArgs, quietAtRead>>
  /\ UNCHANGED <<depInfo, changed, prior>>

\* createDependencyInfo and storeDependencyInfo
LaunchTestStore ==
  /\ pc = "store"
  /\ pc' = "ran"
  /\ IF inv.results # None
       THEN /\ depInfo' = [depInfo EXCEPT ![inv.results] =
                             <<CreateDependencyInfo(StoredTargets(inv), StoredArgs(inv),
                                                    StoredDependencies(inv))>>]
            /\ changed' = [changed EXCEPT ![inv.results] = {}]
            /\ ev' = Append(ev, "write")
       ELSE UNCHANGED <<depInfo, changed, ev>>
  /\ UNCHANGED <<tool, inv, awaited, task, upstream, registered, reason, readArgs, quietAtRead, exitCode, logged, error>>
  /\ UNCHANGED <<resultsFile, prior, touchedSince>>

\* ------------------------------------------------------------------ the file system
\* the content of a dependency changes
Touch(p) ==
  /\ \/ ~touchedSince
     \/ \E r \in ResultsPaths : depInfo[r] # NoRecord
          /\ p \in Range(depInfo[r][1].dependencies) /\ p \notin changed[r]
  /\ changed' = [r \in ResultsPaths |->
                   IF depInfo[r] # NoRecord /\ p \in Range(depInfo[r][1].dependencies)
                     THEN changed[r] \cup {p} ELSE changed[r]]
  /\ touchedSince' = TRUE
  /\ UNCHANGED <<tool, inv, awaited, task, pc, upstream, registered, reason, readArgs, quietAtRead, exitCode, ev, logged, error>>
  /\ UNCHANGED <<depInfo, resultsFile, prior>>

Next ==
  \/ \E c \in RunInputs :
          Run(c.program, c.results, c.extraArgs, c.dependencies, c.enabled, c.alwaysRun)
  \/ Await
  \/ \E u \in TaskPaths : UpstreamDone(u)
  \/ \E u \in TaskPaths : UpstreamFail(u)
  \/ Start
  \/ LaunchStart
  \/ TaskComplete
  \/ \E fault \in BOOLEAN : LaunchTestCheck(fault)
  \/ LaunchTestOpen
  \/ \E started \in BOOLEAN : LaunchTestSpawn(started)
  \/ \E code \in ExitCodes : LaunchTestWait(code)
  \/ LaunchTestStore
  \/ \E p \in TouchPaths : Touch(p)

Spec == Init /\ [][Next]_vars

\* ------------------------------------------------------------------ properties
\* the read of the store, the process and the write of the store have not happened
NothingDone ==
  /\ pc = "none"
  /\ ev = <<>>
  /\ reason = "unread"

\* the launch task runs or has run _launchTest
InLaunchTest == pc \in {"check", "open", "spawn", "running", "store", "skipped", "ran"} \/ ev # <<>>

\* the tasks the caller declared: of the program, of the dependencies of the
\* tool and of the dependencies of the call
DeclaredUpstream ==
  ({inv.program} \cup Range(tool.dependencies) \cup Range(inv.callDependencies)) \cap TaskPaths

\* the vector the caller stated for the current invocation
InvVector == CallerVector(tool, inv.program, inv.callExtraArgs, inv.callDependencies)

\* C1: run() on an enabled tool returns a Target whose task is lazily pending,
\* whatever alwaysRun and the store are; making and registering the Target
\* starts nothing, and as long as no consumer has awaited the Target the task
\* stays lazily pending, no process is spawned and the store is neither read
\* nor written for it.
C1_Laziness ==
  (task # "none" /\ inv.self.enabled /\ ~awaited) =>
    (task = "lazy" /\ registered = {"default", "testresults"} /\ NothingDone)

\* C1 witness: a forced, never awaited Target whose upstream tasks all
\* completed and whose store holds no record: still lazily pending
C1_Witness ==
  /\ task = "lazy"
  /\ inv.self.alwaysRun = "True"
  /\ inv.results # None
  /\ depInfo[inv.results] = NoRecord
  /\ Cardinality(DOMAIN upstream) >= 2
  /\ \A u \in DOMAIN upstream : upstream[u] = "done"

\* C2: the staleness check and the process of an activated test task start only
\* after the program task and every declared dependency task completed.
C2_UpstreamOrdering ==
  InLaunchTest => \A u \in DeclaredUpstream : upstream[u] = "done"

\* C2 witness: the process was spawned after the program task, a dependency
\* task of the tool and a dependency task of the call completed
C2_Witness ==
  /\ Has(ev, "spawn")
  /\ Cardinality(DeclaredUpstream) = 3
  /\ Range(tool.dependencies) # {}
  /\ Range(inv.callDependencies) \cap TaskPaths # {}

\* C3: within one invocation the store is read at most once, the process is
\* spawned at most once and the store is written at most once, in the order
\* read, spawn, exit, write.
C3_ReadSpawnWriteOrder ==
  /\ Count(ev, "read") <= 1
  /\ Count(ev, "spawn") + Count(ev, "launch_error") <= 1
  /\ Count(ev, "exit") <= Count(ev, "spawn")
  /\ Count(ev, "write") <= 1
  /\ Before(ev, "read", "spawn") /\ Before(ev, "read", "launch_error")
  /\ Before(ev, "spawn", "exit")
  /\ Before(ev, "exit", "write")
  /\ Has(ev, "write") => Has(ev, "exit")
  /\ (Has(ev, "spawn") /\ ChecksCache(inv)) => Has(ev, "read")

\* C3 witness: an invocation that read the store, ran the process and wrote the store
C3_Witness ==
  /\ pc = "ran"
  /\ ev = <<"read", "debug:reason", "info:Testing", "debug:run", "open", "spawn",
            "exit", "info:output", "write">>

\* C4: an invocation writes the store if and only if it has a results path and
\* its process was spawned and exited with 0; the record has the results path
\* as its only target and the vector [program] + extraArgs + dependencies,
\* the one the invocation gave to its staleness check; a nonzero exit code
\* or a launch failure writes nothing.
C4_PersistOnSuccessOnly ==
  /\ Has(ev, "write") =>
       /\ inv.results # None
       /\ Has(ev, "spawn") /\ Has(ev, "exit") /\ exitCode = 0
       /\ depInfo[inv.results] # NoRecord
       /\ depInfo[inv.results][1].targets = <<inv.results>>
       /\ depInfo[inv.results][1].args = InvVector
       /\ Has(ev, "read") => depInfo[inv.results][1].args = readArgs
  /\ (pc \in {"ran", "failed", "skipped"} /\ inv.results # None
        /\ Has(ev, "exit") /\ exitCode = 0) => Has(ev, "write")
  /\ Has(ev, "read") => readArgs = InvVector
  /\ (Has(ev, "launch_error") \/ (Has(ev, "exit") /\ exitCode # 0)) => ~Has(ev, "write")

\* C4 witness: a record written after a staleness check, with an extra
\* argument and a dependency of the tool and of the call in its vector
C4_Witness ==
  /\ Has(ev, "read") /\ Has(ev, "write")
  /\ Len(depInfo[inv.results][1].args) = 5

\* the invocation this one replaced ran its process on the same results path
PriorRanHere == prior.ran /\ prior.sameResults

\* the current invocation consulted the store and the store answered
CacheAnswered == Has(ev, "read") /\ reason # "fault"

\* _launchTest has returned or raised
LaunchOver == pc \in {"skipped", "ran", "failed"}

\* C5: when the process of an invocation exits with a nonzero code, the next
\* invocation with the same inputs on the same results path that consults the
\* store is judged stale and runs the process again, whatever alwaysRun the
\* failing invocation had and whatever the store held.
C5_FailureDoesNotPersist ==
  (PriorRanHere /\ ~prior.succeeded /\ prior.sameInputs /\ CacheAnswered) =>
    (reason # None /\ pc # "skipped")

\* C6: when run() is invoked and awaited twice in sequence with the same
\* program, extra arguments, dependencies and results path, the first exits
\* with 0, no dependency changes in between and the second consults the store
\* (alwaysRun unset, the read answered), the second is judged up to date and
\* spawns no process.
C6_Idempotence ==
  (PriorRanHere /\ prior.succeeded /\ prior.sameInputs /\ CacheAnswered /\ quietAtRead) =>
    (reason = None /\ pc = "skipped" /\ ~Has(ev, "spawn") /\ ~Has(ev, "launch_error"))

\* C6 witness: the second of two identical invocations with a dependency of
\* the call, skipped after the first one succeeded
C6_Witness ==
  /\ PriorRanHere /\ prior.succeeded /\ prior.sameInputs /\ CacheAnswered /\ quietAtRead
  /\ inv.callDependencies # <<>>
  /\ task = "succeeded" /\ pc = "skipped"

\* C7: after an invocation that ran the process with exit code 0 on a results
\* path, the next invocation on that results path whose vector differs from
\* it (in the program, an extra argument, a dependency or the order) and that
\* consults the store is judged stale and executes the process.
C7_Sensitivity ==
  (PriorRanHere /\ prior.succeeded /\ ~prior.sameVector /\ Has(ev, "read")) =>
    /\ reason # None /\ pc # "skipped"
    /\ LaunchOver => (Has(ev, "spawn") \/ Has(ev, "launch_error"))

\* C7 witness: the vector differs from the stored one only in the order of
\* the dependencies, the store answered "args changed", the process ran
C7_Witness ==
  /\ PriorRanHere /\ prior.succeeded /\ ~prior.sameVector /\ prior.sameElements
  /\ quietAtRead
  /\ reason = "args changed"
  /\ Has(ev, "exit")

\* C8: an awaited invocation without a results path, with alwaysRun unset or
\* true, spawns the process with a transient capture sink, logs the captured
\* output, succeeds when the exit code is 0, and neither reads nor writes the store.
C8_NoResultsPath ==
  (inv.results = None /\ LaunchOver /\ error.kind # "UpstreamFailed") =>
    /\ Has(ev, "spawn") \/ Has(ev, "launch_error")
    /\ Has(ev, "exit") => (Has(ev, "info:output") /\ (exitCode = 0 => pc = "ran"))
    /\ ~Has(ev, "read") /\ ~Has(ev, "write")

\* C9: with enabled = false the Target has no task to wait for: it counts as
\* complete at once, and the invocation never reads the store, spawns a
\* process or writes the store.
C9_Disablement ==
  (task # "none" /\ ~inv.self.enabled) =>
    (task = "notask" /\ NothingDone)

\* C9 witness: a disabled invocation with a results path and no record in the store
C9_Witness ==
  /\ task = "notask"
  /\ ~inv.self.enabled
  /\ inv.results # None
  /\ depInfo[inv.results] = NoRecord

\* C10: an invocation whose process was spawned ends succeeded if and only if
\* the exit code is 0; a nonzero exit code ends the task failed, with a
\* TestFailure that names the results path as target, the program and the
\* exit code.
C10_ExitCodeZeroOnlySuccess ==
  /\ (Has(ev, "exit") /\ LaunchOver) =>
       /\ pc = "ran" <=> exitCode = 0
       /\ exitCode # 0 => error = [kind |-> "TestFailure", name |-> None,
                                   targets |-> <<inv.results>>, program |-> inv.program,
                                   exitCode |-> exitCode]
  /\ (Has(ev, "exit") /\ task \in {"succeeded", "failed"}) =>
       (task = "succeeded" <=> exitCode = 0)
  /\ (Has(ev, "exit") /\ exitCode # 0) => pc = "failed"

\* C10 witness: a test that exited with a negative code: the task failed
C10_Witness ==
  /\ Has(ev, "exit") /\ exitCode = -1
  /\ task = "failed"
  /\ error.kind = "TestFailure"

\* C11: when the process cannot be started, the task of the invocation fails
\* with a LaunchFailure that names the results path as target and the
\* program, and that is neither a TestFailure nor another kind of fault; no
\* exit code is read and the store is not written.
C11_LaunchFailure ==
  Has(ev, "launch_error") =>
    /\ pc = "failed"
    /\ error.kind = "LaunchFailure"
    /\ error.targets = <<inv.results>>
    /\ error.program = inv.program
    /\ ~Has(ev, "exit") /\ ~Has(ev, "write")

\* C12: when the store has no record for the results path, or the read of the
\* store raises a storage fault, the invocation is treated as stale: the task
\* does not fail because of it, the process is started, and after exit code 0
\* the record is written.
C12_FailOpen ==
  (Has(ev, "read") /\ reason \in {"NoRecord", "fault"}) =>
    /\ pc # "skipped"
    /\ pc = "failed" => (Has(ev, "launch_error") \/ (Has(ev, "exit") /\ exitCode # 0))
    /\ LaunchOver => (Has(ev, "spawn") \/ Has(ev, "launch_error"))
    /\ (LaunchOver /\ Has(ev, "exit") /\ exitCode = 0) => (pc = "ran" /\ Has(ev, "write"))

\* C12 witness: the read raised a storage fault although the store holds a
\* matching record; the process ran, exited with 0 and the record was written
C12_Witness ==
  /\ Has(ev, "read") /\ reason = "fault"
  /\ PriorRanHere /\ prior.succeeded /\ prior.sameInputs /\ quietAtRead
  /\ Has(ev, "write") /\ task = "succeeded"

\* C13: with alwaysRun = true every awaited invocation whose upstream tasks
\* completed spawns the process without reading the store, with and without a
\* results path and whatever the store holds.
C13_ForcedMode ==
  (inv.self.alwaysRun = "True" /\ LaunchOver /\ error.kind # "UpstreamFailed") =>
    /\ ~Has(ev, "read")
    /\ Has(ev, "spawn") \/ Has(ev, "launch_error")

\* C14: with alwaysRun = false on an enabled tool, the awaited task completes
\* successfully without creating a launch task: the store is neither read nor
\* written and no process is spawned, with and without a results path and
\* whatever the store holds.
C14_NeverExecute ==
  (task # "none" /\ inv.self.enabled /\ inv.self.alwaysRun = "False") =>
    /\ task \in {"lazy", "started", "succeeded"}
    /\ NothingDone
    /\ error = NoError

\* C14 witness: an awaited invocation with alwaysRun = false and a results
\* path whose record is out of date: the task succeeded
C14_Witness ==
  /\ inv.self.enabled /\ inv.self.alwaysRun = "False"
  /\ awaited /\ task = "succeeded"
  /\ inv.results # None
  /\ depInfo[inv.results] # NoRecord
  /\ changed[inv.results] # {}

\* C15: for every invocation whose process was spawned and exited, the
\* captured output is sent to the informational channel exactly once, after
\* the exit, for exit code 0 and for nonzero exit codes alike, and before the
\* error of a nonzero exit code is raised; it is the content of the capture file.
C15_OutputSurfaced ==
  /\ Has(ev, "exit") =>
       /\ Count(ev, "info:output") = 1
       /\ logged = <<Output(exitCode)>>
       /\ inv.results # None => resultsFile[inv.results].text = logged
       /\ Before(ev, "exit", "info:output")
       /\ Before(ev, "info:output", "raise")
       /\ exitCode # 0 => Has(ev, "raise")
  /\ ~Has(ev, "exit") => (logged = <<>> /\ ~Has(ev, "info:output"))

\* C15 witness: a test that passed: its output was logged
C15_Witness ==
  /\ Has(ev, "exit") /\ exitCode = 0
  /\ pc = "ran"
  /\ logged = <<Output(0)>>

\* a declared upstream task failed
UpstreamFailed == \E u \in DeclaredUpstream : upstream[u] = "failed"

\* C16: if the program task or a declared dependency task fails, the awaited
\* test task checks nothing, spawns nothing and writes nothing, and the task
\* of the Target does not succeed: once over, it is failed.
C16_UpstreamFailure ==
  (awaited /\ UpstreamFailed) =>
    /\ ev = <<>> /\ reason = "unread"
    /\ task # "succeeded"
    /\ pc = "failed" => error = UpstreamError

\* C16 as amended: the same for every tool whose alwaysRun is not false; with
\* alwaysRun = false _start returns before it declares the upstream tasks.
C16_UpstreamFailureWhenLaunching ==
  (awaited /\ UpstreamFailed /\ inv.self.alwaysRun # "False") =>
    /\ ev = <<>> /\ reason = "unread"
    /\ pc \in {"none", "waiting", "failed"}
    /\ task \in {"started", "completing", "failed"}
    /\ pc = "failed" => error = UpstreamError
    /\ task = "failed" => pc = "failed"

\* C16 witness: the program task completed, the task of a dependency of the
\* call failed: the task of the Target failed without running the test
C16_Witness ==
  /\ awaited /\ task = "failed"
  /\ upstream[inv.program] = "done"
  /\ \E u \in Range(inv.callDependencies) \cap TaskPaths : upstream[u] = "failed"
  /\ error = UpstreamError
  /\ ev = <<>>

C18_SkipUntouched ==
  (Has(ev, "read") /\ reason = None) =>
    /\ pc = "skipped"
    /\ task \in {"completing", "succeeded"}
    /\ ev = <<"read">>
    /\ logged = <<>>
    /\ resultsFile = prior.resultsFile
    /\ error = NoError

\* C18 witness: a skipped invocation that succeeded; the results file still
\* holds the output of the run before it
C18_Witness ==
  /\ Has(ev, "read") /\ reason = None
  /\ task = "succeeded"
  /\ PriorRanHere
  /\ resultsFile[inv.results] = [exists |-> TRUE, text |-> <<Output(0)>>]

\* C19: the task of the Target is not complete while the launch task it
\* created is pending or running: it is succeeded only once the launch task
\* skipped, or ran with exit code 0 and wrote the record, and it is failed
\* exactly when the launch task failed.
C19_CompletionCoupling ==
  /\ (task \in {"succeeded", "failed"} /\ inv.self.alwaysRun # "False") => LaunchOver
  /\ (task = "succeeded" /\ inv.self.alwaysRun # "False") =>
       /\ pc \in {"skipped", "ran"}
       /\ pc = "ran" => /\ Has(ev, "exit") /\ exitCode = 0
                        /\ inv.results # None => Has(ev, "write")
  /\ task = "failed" => pc = "failed"
  /\ pc = "failed" => task \in {"completing", "failed"}

\* C19 witness: the task succeeded after the test ran and the record was written
C19_Witness ==
  /\ task = "succeeded"
  /\ pc = "ran"
  /\ Has(ev, "write")

\* the messages _launchTest sends to the debug channel
DebugMessages == {"debug:reason", "debug:run"}

\* C20: whenever the staleness check reports up to date, a message is sent to
\* the debug channel before the task succeeds; and whenever it reports stale
\* with a reason, the reason is sent to the debug channel.
C20_SkipLogged ==
  /\ pc = "skipped" => \E k \in 1 .. Len(ev) : ev[k] \in DebugMessages
  /\ (Has(ev, "read") /\ reason \notin {None, "fault", "NoRecord"}) => Has(ev, "debug:reason")

\* C20 as amended: whenever the staleness check reports stale with a reason,
\* the reason is sent to the debug channel once, after the read and before the
\* test is announced and spawned; when it reports up to date the task succeeds
\* without a message on any channel.
C20_RebuildReasonLogged ==
  /\ (Has(ev, "read") /\ reason \notin {None, "fault", "NoRecord"}) =>
       /\ Count(ev, "debug:reason") = 1
       /\ Before(ev, "read", "debug:reason")
       /\ Before(ev, "debug:reason", "info:Testing")
       /\ Before(ev, "debug:reason", "spawn")
  /\ (Has(ev, "read") /\ reason \in {None, "fault", "NoRecord"}) => ~Has(ev, "debug:reason")
  /\ pc = "skipped" => \A k \in 1 .. Len(ev) : ev[k] \notin DebugMessages

\* C20 witness: a dependency changed since the record was stored: the reason
\* was logged and the test ran
C20_Witness ==
  /\ reason = "dependency changed"
  /\ Has(ev, "debug:reason")
  /\ Has(ev, "spawn")

====
